---- MODULE Spec2Model ----
(***************************************************************************)
(* Quoridor rule engine (game_logic.py), its HTTP commands (api.py) and    *)
(* the search procedures of ai_algorithm.py.                               *)
(***************************************************************************)
EXTENDS Integers, Sequences, FiniteSets, TLC

VARIABLES grid, walls, player_positions, turn, last, ups, ai, snap

vars == <<grid, walls, player_positions, turn, last, ups, ai, snap>>

(***************************************************************************)
(* Program constants and bounds                                            *)
(***************************************************************************)
\* the board is a 9x9 grid
N == 9

\* most wall records kept in one game (the walls list is unbounded in the code)
MaxWalls == 1

\* how many columns left of the start column the L commands take a player
MaxLeft == 0

\* most wall records kept in one game when the walls are what is explored
MaxSealWalls == 3

\* deepest search asked of minimax (ai_decide asks for depth 3)
MaxDepth == 2

\* how far from its start cell a player goes when the walls are explored
MaxRoam == 1

\* the length of the run "player1 moves U repeatedly" that ups counts
UpCalls == N - 1

Rows == 0 .. (N - 1)

Players == {"player1", "player2"}

Dirs == {"U", "D", "L", "R"}

\* QuoridorGame.DIRECTIONS
DIRECTIONS ==
    [U |-> <<-1, 0>>, D |-> <<1, 0>>, L |-> <<0, -1>>, R |-> <<0, 1>>]

\* wall commands issued by the players: (x, y, orientation)
WallInputs ==
    { <<3, 4, "H">>, <<3, 4, "V">>, <<-2, 4, "H">>, <<8, 4, "H">>,
      <<3, 8, "V">>, <<-10, 4, "V">>, <<3, 4, "None">> }

\* wall commands around player2's start cell: three of them close it in
SealInputs ==
    { <<0, 4, "H">>, <<0, 3, "V">>, <<0, 4, "V">>, <<3, -1, "H">>,
      <<0, 8, "V">> }

(***************************************************************************)
(* Board / Cell                                                            *)
(***************************************************************************)
\* Cell.__init__
Cell == [occupant |-> "empty", directions |-> [d \in Dirs |-> TRUE]]

\* Board.set_borders
set_borders(g) ==
    [x \in Rows |-> [y \in Rows |->
        [g[x][y] EXCEPT !.directions =
            [d \in Dirs |->
                IF \/ (d = "L" /\ y = 0)
                   \/ (d = "R" /\ y = N - 1)
                   \/ (d = "U" /\ x = 0)
                   \/ (d = "D" /\ x = N - 1)
                THEN FALSE ELSE @[d]]]]]

\* Board.__init__
Board ==
    LET g0 == [x \in Rows |-> [y \in Rows |-> Cell]]
        g1 == set_borders(g0)
        g2 == [g1 EXCEPT ![0][4].occupant = "player2"]
    IN  [g2 EXCEPT ![8][4].occupant = "player1"]

\* QuoridorGame.__init__
NewGame ==
    [grid |-> Board,
     walls |-> <<>>,
     player_positions |-> [player1 |-> <<8, 4>>, player2 |-> <<0, 4>>],
     turn |-> "player1"]

\* the live game object as one value
Game ==
    [grid |-> grid, walls |-> walls,
     player_positions |-> player_positions, turn |-> turn]

(***************************************************************************)
(* QuoridorGame methods, as functions from a game to a game and a result   *)
(***************************************************************************)
\* QuoridorGame.switch_turn
switch_turn(g) ==
    [g EXCEPT !.turn = IF g.turn = "player1" THEN "player2" ELSE "player1"]

\* move_player leaving the piece on its source cell as well
move_player_noclear(g, direction) ==
    LET x  == g.player_positions[g.turn][1]
        y  == g.player_positions[g.turn][2]
        nx == x + DIRECTIONS[direction][1]
        ny == y + DIRECTIONS[direction][2]
    IN  IF ~(0 <= nx /\ nx < N /\ 0 <= ny /\ ny < N)
        THEN [game |-> g, result |-> "False"]
        ELSE IF ~g.grid[x][y].directions[direction]
        THEN [game |-> g, result |-> "False"]
        ELSE IF g.grid[nx][ny].occupant # "empty"
        THEN [game |-> g, result |-> "False"]
        ELSE [game |->
                [g EXCEPT
                   !.grid = [@ EXCEPT ![nx][ny].occupant = g.turn],
                   !.player_positions[g.turn] = <<nx, ny>>],
              result |-> "True"]

\* move_player without the check of the direction flag
move_player_noflag(g, direction) ==
    LET x  == g.player_positions[g.turn][1]
        y  == g.player_positions[g.turn][2]
        nx == x + DIRECTIONS[direction][1]
        ny == y + DIRECTIONS[direction][2]
    IN  IF ~(0 <= nx /\ nx < N /\ 0 <= ny /\ ny < N)
        THEN [game |-> g, result |-> "False"]
        ELSE IF g.grid[nx][ny].occupant # "empty"
        THEN [game |-> g, result |-> "False"]
        ELSE [game |->
                [g EXCEPT
                   !.grid = [[@ EXCEPT ![x][y].occupant = "empty"]
                                EXCEPT ![nx][ny].occupant = g.turn],
                   !.player_positions[g.turn] = <<nx, ny>>],
              result |-> "True"]

\* move_player without the check that the destination is empty
move_player_through(g, direction) ==
    LET x  == g.player_positions[g.turn][1]
        y  == g.player_positions[g.turn][2]
        nx == x + DIRECTIONS[direction][1]
        ny == y + DIRECTIONS[direction][2]
    IN  IF ~(0 <= nx /\ nx < N /\ 0 <= ny /\ ny < N)
        THEN [game |-> g, result |-> "False"]
        ELSE IF ~g.grid[x][y].directions[direction]
        THEN [game |-> g, result |-> "False"]
        ELSE [game |->
                [g EXCEPT
                   !.grid = [[@ EXCEPT ![x][y].occupant = "empty"]
                                EXCEPT ![nx][ny].occupant = g.turn],
                   !.player_positions[g.turn] = <<nx, ny>>],
              result |-> "True"]

\* move_player handing the turn over itself after a move
move_player_switch(g, direction) ==
    LET x  == g.player_positions[g.turn][1]
        y  == g.player_positions[g.turn][2]
        nx == x + DIRECTIONS[direction][1]
        ny == y + DIRECTIONS[direction][2]
    IN  IF ~(0 <= nx /\ nx < N /\ 0 <= ny /\ ny < N)
        THEN [game |-> g, result |-> "False"]
        ELSE IF ~g.grid[x][y].directions[direction]
        THEN [game |-> g, result |-> "False"]
        ELSE IF g.grid[nx][ny].occupant # "empty"
        THEN [game |-> g, result |-> "False"]
        ELSE [game |->
                [g EXCEPT
                   !.grid = [[@ EXCEPT ![x][y].occupant = "empty"]
                                EXCEPT ![nx][ny].occupant = g.turn],
                   !.player_positions[g.turn] = <<nx, ny>>,
                   !.turn = IF g.turn = "player1" THEN "player2"
                            ELSE "player1"],
              result |-> "True"]

\* move_player refusing every move once a player stands on its goal row
move_player_blocking(g, direction) ==
    LET x  == g.player_positions[g.turn][1]
        y  == g.player_positions[g.turn][2]
        nx == x + DIRECTIONS[direction][1]
        ny == y + DIRECTIONS[direction][2]
    IN  IF g.player_positions["player1"][1] = 0
           \/ g.player_positions["player2"][1] = 8
        THEN [game |-> g, result |-> "False"]
        ELSE IF ~(0 <= nx /\ nx < N /\ 0 <= ny /\ ny < N)
        THEN [game |-> g, result |-> "False"]
        ELSE IF ~g.grid[x][y].directions[direction]
        THEN [game |-> g, result |-> "False"]
        ELSE IF g.grid[nx][ny].occupant # "empty"
        THEN [game |-> g, result |-> "False"]
        ELSE [game |->
                [g EXCEPT
                   !.grid = [[@ EXCEPT ![x][y].occupant = "empty"]
                                EXCEPT ![nx][ny].occupant = g.turn],
                   !.player_positions[g.turn] = <<nx, ny>>],
              result |-> "True"]

\* QuoridorGame.move_player
move_player(g, direction) ==
    LET x  == g.player_positions[g.turn][1]
        y  == g.player_positions[g.turn][2]
        nx == x + DIRECTIONS[direction][1]
        ny == y + DIRECTIONS[direction][2]
    IN  IF ~(0 <= nx /\ nx < N /\ 0 <= ny /\ ny < N)
        THEN [game |-> g, result |-> "False"]
        ELSE IF ~g.grid[x][y].directions[direction]
        THEN [game |-> g, result |-> "False"]
        ELSE IF g.grid[nx][ny].occupant # "empty"
        THEN [game |-> g, result |-> "False"]
        ELSE [game |->
                [g EXCEPT
                   !.grid = [[@ EXCEPT ![x][y].occupant = "empty"]
                                EXCEPT ![nx][ny].occupant = g.turn],
                   !.player_positions[g.turn] = <<nx, ny>>],
              result |-> "True"]

\* a Python list index: negative indices count from the end
InRange(i) == -N <= i /\ i < N

Idx(i) == IF i < 0 THEN i + N ELSE i

\* the flag toggled instead of cleared
Block_toggle(gr, x, y, d) ==
    [gr EXCEPT ![Idx(x)][Idx(y)].directions[d] = ~@]

\* self.board.grid[x][y].directions[d] = False
Block(gr, x, y, d) == [gr EXCEPT ![Idx(x)][Idx(y)].directions[d] = FALSE]

\* QuoridorGame.place_wall
place_wall(g, x, y, orientation) ==
    LET appended == [g EXCEPT !.walls = Append(@, <<x, y, orientation>>)]
    IN  IF orientation = "H"
        THEN IF y >= 8 \/ x >= 8
             THEN [game |-> g, result |-> "False"]
             ELSE IF ~(InRange(x) /\ InRange(y))
             THEN [game |-> g, result |-> "IndexError"]
             ELSE [game |->
                     [appended EXCEPT !.grid =
                        Block(Block(Block(Block(@, x, y, "D"),
                                          x, y + 1, "D"),
                                    x + 1, y, "U"),
                              x + 1, y + 1, "U")],
                   result |-> "True"]
        ELSE IF orientation = "V"
        THEN IF x >= 8 \/ y >= 8
             THEN [game |-> g, result |-> "False"]
             ELSE IF ~(InRange(x) /\ InRange(y))
             THEN [game |-> g, result |-> "IndexError"]
             ELSE [game |->
                     [appended EXCEPT !.grid =
                        Block(Block(Block(Block(@, x, y, "R"),
                                          x + 1, y, "R"),
                                    x, y + 1, "L"),
                              x + 1, y + 1, "L")],
                   result |-> "True"]
        ELSE [game |-> appended, result |-> "True"]

\* check_win testing player2 before player1
check_win_p2first(g) ==
    IF g.player_positions["player2"][1] = 8 THEN "player2"
    ELSE IF g.player_positions["player1"][1] = 0 THEN "player1"
    ELSE "None"

\* QuoridorGame.check_win
check_win(g) ==
    IF g.player_positions["player1"][1] = 0 THEN "player1"
    ELSE IF g.player_positions["player2"][1] = 8 THEN "player2"
    ELSE "None"

\* QuoridorGame.game_state as the client receives it: the positions and the
\* wall records are tuples in the engine and JSON arrays, that is Python
\* lists, in the client
List(t) == [py |-> "list", v |-> t]

Tuple(t) == [py |-> "tuple", v |-> t]

game_state(g) ==
    [player_positions |->
        [p \in Players |-> List(g.player_positions[p])],
     walls |-> [i \in 1 .. Len(g.walls) |-> List(g.walls[i])],
     turn |-> g.turn,
     board |-> [x \in Rows |-> [y \in Rows |->
                  <<g.grid[x][y].occupant, g.grid[x][y].directions>>]]]

(***************************************************************************)
(* ai_algorithm.py: Python floats                                          *)
(***************************************************************************)
Num(n) == [k |-> "num", n |-> n]

\* float('inf'), float('-inf') and the nan that inf - inf gives
PosInf == [k |-> "inf", n |-> 0]

NegInf == [k |-> "-inf", n |-> 0]

NaN == [k |-> "nan", n |-> 0]

\* a - b
FSub(a, b) ==
    IF a.k = "nan" \/ b.k = "nan" THEN NaN
    ELSE IF a.k = "num" /\ b.k = "num" THEN Num(a.n - b.n)
    ELSE IF a.k = b.k THEN NaN
    ELSE IF a.k = "inf" \/ b.k = "-inf" THEN PosInf
    ELSE NegInf

\* a < b
FLt(a, b) ==
    IF a.k = "nan" \/ b.k = "nan" THEN FALSE
    ELSE IF a.k = "num" /\ b.k = "num" THEN a.n < b.n
    ELSE IF a.k = b.k THEN FALSE
    ELSE a.k = "-inf" \/ b.k = "inf"

\* a <= b
FLe(a, b) ==
    IF a.k = "nan" \/ b.k = "nan" THEN FALSE
    ELSE a = b \/ FLt(a, b)

\* max(a, b) and min(a, b): the first argument unless the second beats it
PyMax(a, b) == IF FLt(a, b) THEN b ELSE a

PyMin(a, b) == IF FLt(b, a) THEN b ELSE a

(***************************************************************************)
(* ai_algorithm.py: a_star                                                 *)
(***************************************************************************)
Abs(i) == IF i < 0 THEN -i ELSE i

\* the order of the tuples (priority, (row, col)) in the PriorityQueue
TupleLt(a, b) ==
    \/ a[1] < b[1]
    \/ a[1] = b[1] /\ a[2][1] < b[2][1]
    \/ a[1] = b[1] /\ a[2][1] = b[2][1] /\ a[2][2] < b[2][2]

\* frontier.get()
Top(frontier) == CHOOSE a \in frontier : \A b \in frontier : ~TupleLt(b, a)

\* the for loop of a_star taking an occupied cell for a blocked one
Improved_empty_only(board, current, cost_so_far) ==
    { next_cell \in
        { <<current[1] + DIRECTIONS[d][1], current[2] + DIRECTIONS[d][2]>> :
             d \in {e \in Dirs : board[current[1]][current[2]][2][e]} } :
        /\ 0 <= next_cell[1] /\ next_cell[1] < 9
        /\ 0 <= next_cell[2] /\ next_cell[2] < 9
        /\ board[next_cell[1]][next_cell[2]][1] = "empty"
        /\ \/ next_cell \notin DOMAIN cost_so_far
           \/ cost_so_far[current] + 1 < cost_so_far[next_cell] }

\* the cells the for loop of a_star gives a new cost
Improved(board, current, cost_so_far) ==
    { next_cell \in
        { <<current[1] + DIRECTIONS[d][1], current[2] + DIRECTIONS[d][2]>> :
             d \in {e \in Dirs : board[current[1]][current[2]][2][e]} } :
        /\ 0 <= next_cell[1] /\ next_cell[1] < 9
        /\ 0 <= next_cell[2] /\ next_cell[2] < 9
        /\ \/ next_cell \notin DOMAIN cost_so_far
           \/ cost_so_far[current] + 1 < cost_so_far[next_cell] }

RECURSIVE a_star_loop(_, _, _, _)

\* the while loop of a_star
a_star_loop(board, goal_rows, frontier, cost_so_far) ==
    IF frontier = {}
    THEN PosInf
    ELSE LET top      == Top(frontier)
             current  == top[2]
         IN  IF \E i \in 1 .. Len(goal_rows) : goal_rows[i] = current[1]
             THEN Num(cost_so_far[current])
             ELSE LET new_cost == cost_so_far[current] + 1
                      improved == Improved(board, current, cost_so_far)
                  IN  a_star_loop(
                         board, goal_rows,
                         (frontier \ {top}) \cup
                            { <<new_cost + Abs(goal_rows[1] - c[1]), c>> :
                                 c \in improved },
                         [c \in DOMAIN cost_so_far \cup improved |->
                            IF c \in improved THEN new_cost
                            ELSE cost_so_far[c]])

\* a_star: a value, or the exception raised; a list as start is no dict key
a_star(board, start, goal_rows) ==
    IF start.py = "list"
    THEN [exc |-> "TypeError", val |-> NaN]
    ELSE [exc |-> "-",
          val |-> a_star_loop(board, goal_rows, {<<0, start.v>>},
                              [c \in {start.v} |-> 0])]

(***************************************************************************)
(* The HTTP commands as functions of the live game: the request body, the  *)
(* validation by MoveRequest and the JSON body of the response             *)
(***************************************************************************)
\* models.MoveRequest: `type` has no default, so a body without it is
\* refused (422, a body holding only "detail") before the handler runs
MoveRequestValid(body) == "type" \in DOMAIN body

\* POST /move: the game afterwards and the JSON body of the response
post_move(g, body) ==
    IF ~MoveRequestValid(body)
    THEN [game |-> g, json |-> [detail |-> "field required"]]
    ELSE IF "direction" \notin DOMAIN body
    THEN [game |-> g, json |-> [detail |-> "Internal Server Error"]]
    ELSE LET r == move_player(g, body.direction)
         IN  IF r.result = "True"
             THEN LET g2 == switch_turn(r.game)
                  IN  [game |-> g2,
                       json |-> [success |-> "True",
                                 winner |-> check_win(r.game),
                                 game_state |-> game_state(g2)]]
             ELSE [game |-> r.game,
                   json |-> [success |-> "False", error |-> "Invalid move",
                             game_state |-> game_state(r.game)]]

\* send_move posting a body that MoveRequest accepts
send_move_typed(g, direction) ==
    post_move(g, [type |-> "move", direction |-> direction])

\* ai_algorithm.send_move: the body it posts holds the direction only
send_move(g, direction) == post_move(g, [direction |-> direction])

\* ai_algorithm.get_game_state
get_game_state(g) == game_state(g)

(***************************************************************************)
(* ai_algorithm.py: heuristic and minimax, as functions of the live game   *)
(* and the state dict; each gives the live game afterwards and either the  *)
(* value returned or the exception raised                                  *)
(***************************************************************************)
Raised(g, e) == [game |-> g, exc |-> e, val |-> NaN, mv |-> "-"]

Returned(g, v, m) == [game |-> g, exc |-> "-", val |-> v, mv |-> m]

\* heuristic
heuristic(state) ==
    LET ai_path == a_star(state["board"],
                          state["player_positions"]["player1"], <<0>>)
        opponent_path == a_star(state["board"],
                                state["player_positions"]["player2"], <<8>>)
    IN  IF ai_path.exc # "-" THEN ai_path
        ELSE IF opponent_path.exc # "-" THEN opponent_path
        ELSE [exc |-> "-", val |-> FSub(opponent_path.val, ai_path.val)]

\* bool(state["winner"])
Truthy(v) == v # "None"

\* moves = ['U', 'D', 'L', 'R']
MOVES == <<"U", "D", "L", "R">>

\* new_state = deepcopy(state); new_state["game_state"] = ...
WithGameState(state, gs) ==
    [key \in DOMAIN state \cup {"game_state"} |->
        IF key = "game_state" THEN gs ELSE state[key]]

RECURSIVE minimax(_, _, _, _, _, _)

RECURSIVE max_loop(_, _, _, _, _, _, _, _)

RECURSIVE min_loop(_, _, _, _, _, _, _)

\* the for loop of the maximizing branch from moves[i] on
max_loop(g, state, depth, alpha, beta, i, max_eval, best_move) ==
    IF i > Len(MOVES)
    THEN Returned(g, max_eval, best_move)
    ELSE LET sent == send_move(g, MOVES[i])
         IN  IF "game_state" \notin DOMAIN sent.json
             THEN Raised(sent.game, "KeyError")
             ELSE LET r == minimax(sent.game,
                                   WithGameState(state, sent.json.game_state),
                                   depth - 1, alpha, beta, FALSE)
                      better == FLt(max_eval, r.val)
                      max2   == IF better THEN r.val ELSE max_eval
                      best2  == IF better THEN MOVES[i] ELSE best_move
                      alpha2 == PyMax(alpha, r.val)
                  IN  IF r.exc # "-" THEN r
                      ELSE IF FLe(beta, alpha2)
                      THEN Returned(r.game, max2, best2)
                      ELSE max_loop(r.game, state, depth, alpha2, beta,
                                    i + 1, max2, best2)

\* the for loop of the minimizing branch from moves[i] on
min_loop(g, state, depth, alpha, beta, i, min_eval) ==
    IF i > Len(MOVES)
    THEN Returned(g, min_eval, "None")
    ELSE LET sent == send_move(g, MOVES[i])
         IN  IF "game_state" \notin DOMAIN sent.json
             THEN Raised(sent.game, "KeyError")
             ELSE LET r == minimax(sent.game,
                                   WithGameState(state, sent.json.game_state),
                                   depth - 1, alpha, beta, TRUE)
                      min2  == PyMin(min_eval, r.val)
                      beta2 == PyMin(beta, r.val)
                  IN  IF r.exc # "-" THEN r
                      ELSE IF FLe(beta2, alpha)
                      THEN Returned(r.game, min2, "None")
                      ELSE min_loop(r.game, state, depth, alpha, beta2,
                                    i + 1, min2)

\* the value of heuristic(state), or what it raised
Leaf(g, state) ==
    LET h == heuristic(state)
    IN  IF h.exc # "-" THEN Raised(g, h.exc) ELSE Returned(g, h.val, "None")

\* minimax reading state["winner"] before it compares depth with 0
minimax_winner_first(g, state, depth, alpha, beta, maximizing) ==
    IF "winner" \notin DOMAIN state
    THEN Raised(g, "KeyError")
    ELSE IF Truthy(state["winner"]) \/ depth = 0
    THEN Leaf(g, state)
    ELSE IF maximizing
    THEN max_loop(g, state, depth, alpha, beta, 1, NegInf, "None")
    ELSE min_loop(g, state, depth, alpha, beta, 1, PosInf)

\* minimax
minimax(g, state, depth, alpha, beta, maximizing) ==
    IF depth = 0
    THEN Leaf(g, state)
    ELSE IF "winner" \notin DOMAIN state
    THEN Raised(g, "KeyError")
    ELSE IF Truthy(state["winner"])
    THEN Leaf(g, state)
    ELSE IF maximizing
    THEN max_loop(g, state, depth, alpha, beta, 1, NegInf, "None")
    ELSE min_loop(g, state, depth, alpha, beta, 1, PosInf)

(***************************************************************************)
(* ai_algorithm.py: mcts and astar_move, as functions of the live game and *)
(* the state dict                                                          *)
(***************************************************************************)
\* max(scores, key=scores.get): the first key, in the order the dict was
\* filled, that no other key beats
BestMove(scores) ==
    LET i == CHOOSE k \in 1 .. Len(MOVES) :
                 /\ \A j \in 1 .. Len(MOVES) :
                       scores[MOVES[j]] <= scores[MOVES[k]]
                 /\ \A j \in 1 .. (k - 1) :
                       scores[MOVES[j]] < scores[MOVES[k]]
    IN  MOVES[i]

\* how a call of mcts ends: the live game, the exception raised or the move
\* returned, the scores dict and the number of trials begun
MctsEnd(g, e, m, scores, trials) ==
    [game |-> g, exc |-> e, mv |-> m, scores |-> scores, trials |-> trials]

RECURSIVE mcts_loop(_, _, _, _, _, _, _)

\* the two for loops of mcts from trial t of moves[i] on
mcts_loop(g, state, simulations, i, t, scores, trials) ==
    IF i > Len(MOVES)
    THEN MctsEnd(g, "-", BestMove(scores), scores, trials)
    ELSE IF t > simulations
    THEN mcts_loop(g, state, simulations, i + 1, 1, scores, trials)
    ELSE LET sent == send_move(g, MOVES[i])
         IN  IF "game_state" \notin DOMAIN sent.json
             THEN MctsEnd(sent.game, "KeyError", "-", scores, trials + 1)
             ELSE IF "winner" \notin DOMAIN state
             THEN MctsEnd(sent.game, "KeyError", "-", scores, trials + 1)
             ELSE LET w == WithGameState(state,
                                         sent.json.game_state)["winner"]
                      scores2 ==
                          [scores EXCEPT ![MOVES[i]] =
                              IF w = "player1" THEN @ + 1
                              ELSE IF w = "player2" THEN @ - 1
                              ELSE @]
                  IN  mcts_loop(sent.game, state, simulations, i, t + 1,
                                scores2, trials + 1)

\* mcts
mcts(g, state, simulations) ==
    mcts_loop(g, state, simulations, 1, 1,
              [m \in {MOVES[k] : k \in 1 .. Len(MOVES)} |-> 0], 0)

RECURSIVE astar_loop(_, _, _, _, _)

\* the for loop of astar_move from moves[i] on
astar_loop(g, state, i, best_score, best_move) ==
    IF i > Len(MOVES)
    THEN Returned(g, best_score, best_move)
    ELSE LET sent == send_move(g, MOVES[i])
         IN  IF "game_state" \notin DOMAIN sent.json
             THEN Raised(sent.game, "KeyError")
             ELSE LET simulated_state ==
                          WithGameState(state, sent.json.game_state)
                      score ==
                          a_star(simulated_state["board"],
                                 simulated_state["player_positions"]["player1"],
                                 <<0>>)
                      better == FLt(score.val, best_score)
                  IN  IF score.exc # "-"
                      THEN Raised(sent.game, score.exc)
                      ELSE astar_loop(sent.game, state, i + 1,
                                      IF better THEN score.val ELSE best_score,
                                      IF better THEN MOVES[i] ELSE best_move)

\* astar_move
astar_move(g, state) == astar_loop(g, state, 1, PosInf, "None")

(***************************************************************************)
(* The state machine                                                       *)
(***************************************************************************)
\* what the last call was and what it returned
Call(op, direction, x, y, orientation, result, winner) ==
    [op |-> op, direction |-> direction, x |-> x, y |-> y,
     orientation |-> orientation, result |-> result, winner |-> winner]

\* what the last call of the AI client was and how it ended: the value it
\* returned or the exception it raised
AiCall(op, input, start, goal, depth, exc, val, mv) ==
    [op |-> op, input |-> input, start |-> start, goal |-> goal,
     depth |-> depth, exc |-> exc, val |-> val, mv |-> mv]

NoCall == AiCall("none", "-", <<0, 0>>, 0, 0, "-", NaN, "-")

(***************************************************************************)
(* A dict returned by QuoridorGame.game_state() and kept by its caller.    *)
(* The dict and the rows of "board" are new objects; "player_positions",   *)
(* "walls" and each cell's directions are the engine's own dict, list and  *)
(* dicts; "turn" and the occupants are strings.  `live` says that those    *)
(* objects belong to the game the module-level name `game` is bound to;    *)
(* once /restart has bound the name to a new game they belong to `old`.    *)
(* `writes` counts the assignments the caller has made through the dict.   *)
(***************************************************************************)
Occupants(g) == [x \in Rows |-> [y \in Rows |-> g.grid[x][y].occupant]]

NoSnapshot ==
    [taken |-> FALSE, live |-> FALSE, turn |-> "player1",
     occupant |-> Occupants(NewGame), old |-> NewGame, writes |-> 0]

\* the dict game_state() returns in game g
Snapshot(g) ==
    [taken |-> TRUE, live |-> TRUE, turn |-> g.turn,
     occupant |-> Occupants(g), old |-> NewGame, writes |-> 0]

\* global game; game = QuoridorGame(): the objects a kept dict refers to
\* stay those of the game g that was replaced
Detached(s, g) ==
    IF s.taken /\ s.live THEN [s EXCEPT !.live = FALSE, !.old = g] ELSE s

SetGame(g) ==
    /\ grid' = g.grid
    /\ walls' = g.walls
    /\ player_positions' = g.player_positions
    /\ turn' = g.turn

Init ==
    /\ grid = NewGame.grid
    /\ walls = NewGame.walls
    /\ player_positions = NewGame.player_positions
    /\ turn = NewGame.turn
    /\ last = Call("init", "-", 0, 0, "-", "-", "-")
    /\ ups = 0
    /\ ai = NoCall
    /\ snap = NoSnapshot

\* the L commands explored: those that keep the mover within MaxLeft columns
\* of the start column
Explored(direction) ==
    direction = "L" => player_positions[turn][2] - 1 >= 4 - MaxLeft

\* the run "player1 moves U repeatedly from the start state": the number of
\* such calls made so far, -1 once anything else has changed the game
UpsAfterMove(direction) ==
    IF ups >= 0 /\ ups < UpCalls /\ direction = "U" /\ turn = "player1"
    THEN ups + 1 ELSE -1

\* the moves explored with the walls: those that aim within MaxRoam steps of
\* the mover's start cell
Near(direction) ==
    LET at    == player_positions[turn]
        tx    == at[1] + DIRECTIONS[direction][1]
        ty    == at[2] + DIRECTIONS[direction][2]
        start == NewGame.player_positions[turn]
        dx    == IF tx >= start[1] THEN tx - start[1] ELSE start[1] - tx
        dy    == IF ty >= start[2] THEN ty - start[2] ELSE start[2] - ty
    IN  dx + dy <= MaxRoam

\* game.move_player(direction)
MovePlayerCall(direction) ==
    LET r == move_player(Game, direction)
    IN  /\ SetGame(r.game)
        /\ last' = Call("move_player", direction, 0, 0, "-", r.result, "-")
        /\ ups' = UpsAfterMove(direction)
        /\ ai' = NoCall
        /\ UNCHANGED snap

MovePlayer(direction) == Explored(direction) /\ MovePlayerCall(direction)

MoveNear(direction) == Near(direction) /\ MovePlayerCall(direction)

\* game.place_wall(x, y, orientation)
PlaceWallCall(w) ==
    LET r == place_wall(Game, w[1], w[2], w[3])
    IN  /\ SetGame(r.game)
        /\ last' = Call("place_wall", "-", w[1], w[2], w[3], r.result, "-")
        /\ ups' = -1
        /\ ai' = NoCall
        /\ UNCHANGED snap

PlaceWall(w) == Len(walls) < MaxWalls /\ PlaceWallCall(w)

PlaceSeal(w) == Len(walls) < MaxSealWalls /\ PlaceWallCall(w)

\* game.switch_turn()
SwitchTurn ==
    /\ SetGame(switch_turn(Game))
    /\ last' = Call("switch_turn", "-", 0, 0, "-", "None", "-")
    /\ ups' = -1
    /\ ai' = NoCall
    /\ UNCHANGED snap

\* game.check_win()
CheckWin ==
    /\ UNCHANGED <<grid, walls, player_positions, turn, ups>>
    /\ last' = Call("check_win", "-", 0, 0, "-", check_win(Game), "-")
    /\ ai' = NoCall
    /\ UNCHANGED snap

\* POST /move switching the turn whether or not the move succeeded
move_always_switch(direction) ==
    LET r == move_player(Game, direction)
    IN  /\ Explored(direction)
        /\ SetGame(switch_turn(r.game))
        /\ last' = Call("move", direction, 0, 0, "-", r.result,
                        IF r.result = "True" THEN check_win(r.game) ELSE "-")
        /\ ups' = -1
        /\ ai' = NoCall
        /\ UNCHANGED snap

\* POST /move
move(direction) ==
    LET r == move_player(Game, direction)
    IN  /\ Explored(direction)
        /\ IF r.result = "True"
           THEN /\ SetGame(switch_turn(r.game))
                /\ last' = Call("move", direction, 0, 0, "-", "True",
                                check_win(r.game))
           ELSE /\ SetGame(r.game)
                /\ last' = Call("move", direction, 0, 0, "-", "False", "-")
        /\ ups' = -1
        /\ ai' = NoCall
        /\ UNCHANGED snap

\* POST /wall switching the turn only after a horizontal wall
wall_switch_h(w) ==
    LET r == place_wall(Game, w[1], w[2], w[3])
    IN  /\ Len(walls) < MaxWalls
        /\ IF r.result = "True" /\ w[3] = "H"
           THEN SetGame(switch_turn(r.game))
           ELSE SetGame(r.game)
        /\ last' = Call("wall", "-", w[1], w[2], w[3], r.result, "-")
        /\ ups' = -1
        /\ ai' = NoCall
        /\ UNCHANGED snap

\* POST /wall
wall(w) ==
    LET r == place_wall(Game, w[1], w[2], w[3])
    IN  /\ Len(walls) < MaxWalls
        /\ IF r.result = "True"
           THEN SetGame(switch_turn(r.game))
           ELSE SetGame(r.game)
        /\ last' = Call("wall", "-", w[1], w[2], w[3], r.result, "-")
        /\ ups' = -1
        /\ ai' = NoCall
        /\ UNCHANGED snap

\* POST /restart keeping the wall records of the game it replaces
restart_keeps_walls ==
    /\ SetGame([NewGame EXCEPT !.walls = walls])
    /\ last' = Call("restart", "-", 0, 0, "-", "True", "-")
    /\ ups' = 0
    /\ ai' = NoCall
    /\ snap' = Detached(snap, Game)

\* POST /restart
restart_game ==
    /\ SetGame(NewGame)
    /\ last' = Call("restart", "-", 0, 0, "-", "True", "-")
    /\ ups' = 0
    /\ ai' = NoCall
    /\ snap' = Detached(snap, Game)

\* the engine driven method by method
Next ==
    \/ \E direction \in Dirs : MovePlayer(direction)
    \/ \E w \in WallInputs : PlaceWall(w)
    \/ SwitchTurn
    \/ CheckWin
    \/ restart_game

Spec == Init /\ [][Next]_vars

\* the engine driven through the HTTP commands
ApiNext ==
    \/ \E direction \in Dirs : move(direction)
    \/ \E w \in WallInputs : wall(w)
    \/ restart_game

ApiSpec == Init /\ [][ApiNext]_vars

\* the start cells and goal rows a_star is asked about
GoalRows == {0, 8}

\* a_star(state["board"], start, [goal]) on the board as the client has it
AStar(start, goal) ==
    LET r == a_star(game_state(Game).board, Tuple(start), <<goal>>)
    IN  /\ ai.op = "none"
        /\ ai' = AiCall("a_star", "-", start, goal, 0, r.exc, r.val, "-")
        /\ UNCHANGED <<grid, walls, player_positions, turn, last, ups, snap>>

\* the state dicts minimax is called with: "snapshot" is get_game_state(),
\* what ai_decide passes; "with_winner" is a dict holding every key minimax
\* and heuristic read, the positions as tuples
StateKinds == {"snapshot", "with_winner"}

StateInput(kind) ==
    IF kind = "snapshot"
    THEN get_game_state(Game)
    ELSE [player_positions |->
             [p \in Players |-> Tuple(player_positions[p])],
          walls |-> walls,
          turn |-> turn,
          board |-> game_state(Game).board,
          winner |-> check_win(Game)]

\* minimax(state, depth, float('-inf'), float('inf'), True)
Minimax(kind, depth) ==
    LET r == minimax(Game, StateInput(kind), depth, NegInf, PosInf, TRUE)
    IN  /\ ai.op = "none"
        /\ SetGame(r.game)
        /\ ai' = AiCall("minimax", kind, <<0, 0>>, 0, depth,
                        r.exc, r.val, r.mv)
        /\ UNCHANGED <<last, ups, snap>>

\* the most simulations asked of mcts (the default is 100)
MaxSimulations == 2

\* how many columns right of the start column the searches' boards reach
MaxLane == 1

\* what a call of mcts was given and how it ended
MctsCall(input, simulations, r) ==
    [op |-> "mcts", input |-> input, simulations |-> simulations,
     exc |-> r.exc, mv |-> r.mv, scores |-> r.scores, trials |-> r.trials]

\* mcts(state, simulations)
Mcts(kind, simulations) ==
    LET r == mcts(Game, StateInput(kind), simulations)
    IN  /\ ai.op = "none"
        /\ SetGame(r.game)
        /\ ai' = MctsCall(kind, simulations, r)
        /\ UNCHANGED <<last, ups, snap>>

\* astar_move(state)
AstarMove(kind) ==
    LET r == astar_move(Game, StateInput(kind))
    IN  /\ ai.op = "none"
        /\ SetGame(r.game)
        /\ ai' = AiCall("astar_move", kind, <<0, 0>>, 0, 0,
                        r.exc, r.val, r.mv)
        /\ UNCHANGED <<last, ups, snap>>

\* wall commands that make pockets and detours below row 0
AiWallInputs == SealInputs \cup { <<1, 3, "H">>, <<1, 4, "V">> }

\* place_wall refusing a wall that touches a cell a player stands on
PlaceAiWall_sparing(w) ==
    LET touched == { <<w[1], w[2]>>, <<w[1] + 1, w[2]>>,
                     <<w[1], w[2] + 1>>, <<w[1] + 1, w[2] + 1>> }
    IN  IF \E p \in Players : player_positions[p] \in touched
        THEN /\ Len(walls) < MaxSealWalls
             /\ last' = Call("place_wall", "-", w[1], w[2], w[3], "False",
                             "-")
             /\ ups' = -1
             /\ ai' = NoCall
             /\ UNCHANGED <<grid, walls, player_positions, turn, snap>>
        ELSE Len(walls) < MaxSealWalls /\ PlaceWallCall(w)

PlaceAiWall(w) == Len(walls) < MaxSealWalls /\ PlaceWallCall(w)

\* the AI client's searches on boards built by wall placements
AiNext ==
    \/ \E w \in AiWallInputs : PlaceAiWall(w)
    \/ \E start \in Rows \X Rows : \E goal \in GoalRows : AStar(start, goal)
    \/ \E kind \in StateKinds : \E depth \in 0 .. MaxDepth :
          Minimax(kind, depth)
    \/ \E kind \in StateKinds : AstarMove(kind)
    \/ restart_game

AiSpec == Init /\ [][AiNext]_vars

\* the moves explored with the searches: those that aim at the start column
\* or one of the MaxLane columns right of it
InLane(direction) ==
    LET ty == player_positions[turn][2] + DIRECTIONS[direction][2]
    IN  4 <= ty /\ ty <= 4 + MaxLane

MoveInLane(direction) == InLane(direction) /\ MovePlayerCall(direction)

\* the AI client's searches on the positions the players can get to
PlayNext ==
    \/ \E direction \in Dirs : MoveInLane(direction)
    \/ SwitchTurn
    \/ \E kind \in StateKinds : \E depth \in 0 .. MaxDepth :
          Minimax(kind, depth)
    \/ \E kind \in StateKinds : \E simulations \in 0 .. MaxSimulations :
          Mcts(kind, simulations)
    \/ \E kind \in StateKinds : AstarMove(kind)
    \/ restart_game

PlaySpec == Init /\ [][PlayNext]_vars

\* the engine with several walls and the players near their start cells
WallNext ==
    \/ \E direction \in Dirs : MoveNear(direction)
    \/ \E w \in SealInputs : PlaceSeal(w)
    \/ SwitchTurn
    \/ restart_game

WallSpec == Init /\ [][WallNext]_vars

\* POST /wall refusing a wall whose record is already in walls
wall_refusing_repeat(w) ==
    LET r == place_wall(Game, w[1], w[2], w[3])
        repeat == \E i \in 1 .. Len(walls) : walls[i] = w
    IN  /\ Len(walls) < MaxSealWalls
        /\ IF r.result = "True" /\ ~repeat
           THEN SetGame(switch_turn(r.game))
           ELSE SetGame(Game)
        /\ last' = Call("wall", "-", w[1], w[2], w[3],
                        IF repeat THEN "False" ELSE r.result, "-")
        /\ ups' = -1
        /\ ai' = NoCall
        /\ UNCHANGED snap

\* POST /wall in a game that takes several walls
WallCommand(w) ==
    LET r == place_wall(Game, w[1], w[2], w[3])
    IN  /\ Len(walls) < MaxSealWalls
        /\ IF r.result = "True"
           THEN SetGame(switch_turn(r.game))
           ELSE SetGame(r.game)
        /\ last' = Call("wall", "-", w[1], w[2], w[3], r.result, "-")
        /\ ups' = -1
        /\ ai' = NoCall
        /\ UNCHANGED snap

\* POST /move with the players near their start cells
MoveCommand(direction) == Near(direction) /\ move(direction)

\* the HTTP commands in a game that takes several walls
RepeatNext ==
    \/ \E direction \in Dirs : MoveCommand(direction)
    \/ \E w \in SealInputs : WallCommand(w)
    \/ restart_game

RepeatSpec == Init /\ [][RepeatNext]_vars

GameUnchanged == UNCHANGED <<grid, walls, player_positions, turn>>

\* most wall records kept in one game while a game_state() dict is held
MaxSnapWalls == 1

\* most assignments the caller makes through the dict it keeps
MaxHolderWrites == 1

\* wall commands issued while a game_state() dict is held
SnapWallInputs == { <<7, 4, "H">> }

\* the engine is driven on while the dict the caller keeps, if any, belongs
\* to the game in play
InPlay == snap.taken => snap.live

\* the game whose dict, list and direction dicts the kept dict refers to
Referent == IF snap.live THEN Game ELSE snap.old

\* what a game_state() dict holds: player_positions, walls and the direction
\* dicts are read through the references, turn and the occupants are its own
Dict(ref, t, occupant) ==
    [player_positions |-> ref.player_positions,
     walls |-> ref.walls,
     turn |-> t,
     board |-> [x \in Rows |-> [y \in Rows |->
                  <<occupant[x][y], ref.grid[x][y].directions>>]]]

\* the kept dict as its holder reads it now
View == Dict(Referent, snap.turn, snap.occupant)

\* state = game.game_state(), kept by the caller
TakeSnapshot ==
    /\ ~snap.taken
    /\ snap' = Snapshot(Game)
    /\ last' = Call("game_state", "-", 0, 0, "-", "dict", "-")
    /\ ai' = NoCall
    /\ UNCHANGED <<grid, walls, player_positions, turn, ups>>

\* an assignment through the kept dict reaches the objects it refers to
SetReferent(g) ==
    /\ snap.taken
    /\ snap.writes < MaxHolderWrites
    /\ IF snap.live
       THEN SetGame(g) /\ snap' = [snap EXCEPT !.writes = @ + 1]
       ELSE snap' = [snap EXCEPT !.old = g, !.writes = @ + 1] /\ GameUnchanged

\* state["walls"].append(w)
SnapAppendWall(w) ==
    /\ Len(Referent.walls) < MaxSnapWalls
    /\ SetReferent([Referent EXCEPT !.walls = Append(@, w)])
    /\ last' = Call("state.walls.append", "-", w[1], w[2], w[3], "None", "-")
    /\ ups' = -1
    /\ ai' = NoCall

\* state["player_positions"][p] = c
SnapSetPosition(p, c) ==
    /\ Referent.player_positions[p] # c
    /\ SetReferent([Referent EXCEPT !.player_positions[p] = c])
    /\ last' = Call("state.player_positions.set", "-", c[1], c[2], "-",
                    "None", "-")
    /\ ups' = -1
    /\ ai' = NoCall

\* state["board"][x][y][1][d] = False
SnapSetFlag(c, d) ==
    /\ Referent.grid[c[1]][c[2]].directions[d]
    /\ SetReferent([Referent EXCEPT
                       !.grid[c[1]][c[2]].directions[d] = FALSE])
    /\ last' = Call("state.board.directions.set", d, c[1], c[2], "-",
                    "None", "-")
    /\ ups' = -1
    /\ ai' = NoCall

PlaceSnapWall(w) == Len(walls) < MaxSnapWalls /\ PlaceWallCall(w)

\* the engine with a caller that keeps one game_state() dict
SnapNext ==
    \/ \E direction \in Dirs : InPlay /\ MoveNear(direction)
    \/ \E w \in SnapWallInputs : InPlay /\ PlaceSnapWall(w)
    \/ InPlay /\ SwitchTurn
    \/ TakeSnapshot
    \/ SnapAppendWall(<<5, 5, "H">>)
    \/ SnapSetPosition("player1", <<7, 5>>)
    \/ SnapSetFlag(<<8, 4>>, "R")
    \/ restart_game

SnapSpec == Init /\ [][SnapNext]_vars

(***************************************************************************)
(* Properties                                                              *)
(***************************************************************************)
Cells == Rows \X Rows

Occupied == {c \in Cells : grid[c[1]][c[2]].occupant # "empty"}

Other(p) == IF p = "player1" THEN "player2" ELSE "player1"

\* C1: in every reachable state exactly two cells are occupied, one by each
\* player, the two positions differ, and a cell is occupied by P iff
\* player_positions[P] is that cell
C1_Occupancy ==
    /\ Cardinality(Occupied) = 2
    /\ player_positions["player1"] # player_positions["player2"]
    /\ \A c \in Cells : \A p \in Players :
          (grid[c[1]][c[2]].occupant = p) <=> (player_positions[p] = c)

C1_Witness ==
    /\ last.op = "move_player"
    /\ last.result = "True"
    /\ walls # <<>>
    /\ player_positions["player1"] # <<8, 4>>
    /\ player_positions["player2"] # <<0, 4>>

\* the three reasons for which a move is rejected, read off the state before
MoverAt == player_positions[turn]

Target(direction) ==
    <<MoverAt[1] + DIRECTIONS[direction][1],
      MoverAt[2] + DIRECTIONS[direction][2]>>

OutOfBounds(direction) == Target(direction) \notin Cells

Disabled(direction) ==
    ~grid[MoverAt[1]][MoverAt[2]].directions[direction]

TargetOccupied(direction) ==
    /\ ~OutOfBounds(direction)
    /\ grid[Target(direction)[1]][Target(direction)[2]].occupant # "empty"

\* C2: move_player returns false and changes nothing when the target is out
\* of the grid, the direction is disabled on the source cell or the target
\* is occupied, and returns true in every other case
C2_MoveRejects ==
    [][last'.op = "move_player" =>
         LET d == last'.direction
             rejected == OutOfBounds(d) \/ Disabled(d) \/ TargetOccupied(d)
         IN  /\ rejected => (last'.result = "False" /\ GameUnchanged)
             /\ ~rejected => last'.result = "True"]_vars

\* a move rejected by a wall: in bounds, target free, flag disabled
C2_Witness ==
    /\ last.op = "move_player"
    /\ last.result = "False"
    /\ ~OutOfBounds(last.direction)
    /\ ~TargetOccupied(last.direction)
    /\ Disabled(last.direction)

Anchors == 0 .. 7

FlagsUnchanged ==
    \A c \in Cells :
        grid'[c[1]][c[2]].directions = grid[c[1]][c[2]].directions

OccupancyUnchanged ==
    \A c \in Cells : grid'[c[1]][c[2]].occupant = grid[c[1]][c[2]].occupant

\* C3: a wall command with orientation H or V succeeds only for an anchor in
\* [0,7] x [0,7]; for any other anchor it returns false, changes no flag,
\* appends no record and does not switch the turn
C3_AnchorRange ==
    [][(last'.op = "wall" /\ last'.orientation \in {"H", "V"}) =>
         /\ last'.result = "True" =>
               (last'.x \in Anchors /\ last'.y \in Anchors)
         /\ ~(last'.x \in Anchors /\ last'.y \in Anchors) =>
               /\ last'.result = "False"
               /\ FlagsUnchanged
               /\ walls' = walls
               /\ turn' = turn]_vars

\* the flags the claim names for a wall at (row, col)
NamedFlags(row, col, orientation) ==
    IF orientation = "H"
    THEN { <<row, col, "D">>, <<row, col + 1, "D">>,
           <<row + 1, col, "U">>, <<row + 1, col + 1, "U">> }
    ELSE { <<row, col, "R">>, <<row + 1, col, "R">>,
           <<row, col + 1, "L">>, <<row + 1, col + 1, "L">> }

\* C4: a successful place_wall(row, col, H or V) sets to false exactly the
\* four flags named for (row, col), leaves every other flag, the occupancy,
\* the positions and the turn as they were, and appends one record
C4_WallEffect ==
    [][(/\ last'.op = "place_wall"
        /\ last'.orientation \in {"H", "V"}
        /\ last'.result = "True") =>
         /\ \A c \in Cells : \A d \in Dirs :
               grid'[c[1]][c[2]].directions[d] =
                  IF <<c[1], c[2], d>> \in
                        NamedFlags(last'.x, last'.y, last'.orientation)
                  THEN FALSE
                  ELSE grid[c[1]][c[2]].directions[d]
         /\ OccupancyUnchanged
         /\ player_positions' = player_positions
         /\ turn' = turn
         /\ walls' = Append(walls,
                            <<last'.x, last'.y, last'.orientation>>)]_vars

BordersBlocked ==
    \A i \in Rows :
        /\ ~grid[0][i].directions["U"]
        /\ ~grid[N - 1][i].directions["D"]
        /\ ~grid[i][0].directions["L"]
        /\ ~grid[i][N - 1].directions["R"]

\* C5: within one game no move and no wall placement turns a flag from false
\* to true, and the flags leaving the grid are false in every state
C5_Monotone ==
    [][/\ BordersBlocked
       /\ BordersBlocked'
       /\ last'.op # "restart" =>
             \A c \in Cells : \A d \in Dirs :
                 ~grid[c[1]][c[2]].directions[d] =>
                     ~grid'[c[1]][c[2]].directions[d]]_vars

\* the same wall placed twice, then a move
C5_Witness ==
    /\ last.op = "move_player"
    /\ last.result = "True"
    /\ Len(walls) >= 2
    /\ walls[1] = walls[2]
    /\ ~grid[0][4].directions["D"]

\* C6: a command that reports success leaves the turn with the other player
\* and has moved the piece of the player whose turn it was; a command that
\* reports failure leaves the turn as it was; nothing else but a restart
\* changes the turn
C6_TurnFlips ==
    [][/\ (last'.op \in {"move", "wall"} /\ last'.result = "True") =>
             turn' = Other(turn)
       /\ (last'.op = "move" /\ last'.result = "True") =>
             /\ player_positions'[turn] # player_positions[turn]
             /\ player_positions'[Other(turn)] =
                   player_positions[Other(turn)]
       /\ (last'.op \in {"move", "wall"} /\ last'.result = "False") =>
             turn' = turn
       /\ turn' # turn =>
             \/ last'.op \in {"move", "wall"} /\ last'.result = "True"
             \/ last'.op = "restart"]_vars

\* player1 moves again after an accepted wall and an accepted move
C6_Witness ==
    /\ last.op = "move"
    /\ last.result = "True"
    /\ turn = "player2"
    /\ walls # <<>>
    /\ player_positions["player2"] # <<0, 4>>

\* C7 as claimed: after 8 U calls from the start state player1 is on (0,4)
\* and check_win reports player1
C7_EightUps ==
    ups = UpCalls =>
        /\ player_positions["player1"] = <<0, 4>>
        /\ check_win(Game) = "player1"

\* C7 as the code has it: the first 7 calls succeed, the 8th is rejected
\* because player2 stands on (0,4); player1 ends on (1,4) with no winner
C7_SevenUps ==
    /\ (ups >= 0 /\ ups < UpCalls) =>
          player_positions["player1"] = <<8 - ups, 4>>
    /\ ups = UpCalls =>
          /\ player_positions["player1"] = <<1, 4>>
          /\ grid[0][4].occupant = "player2"
          /\ check_win(Game) = "None"
          /\ last.op = "move_player" => last.result = "False"
          /\ last.op = "check_win" => last.result = "None"

C7_Witness ==
    /\ ups = UpCalls
    /\ last.op = "check_win"

\* check_win as the claim words it
Winner ==
    IF player_positions["player1"][1] = 0 THEN "player1"
    ELSE IF player_positions["player2"][1] = 8 THEN "player2"
    ELSE "None"

\* C8: check_win returns player1 when player1 is on row 0, otherwise player2
\* when player2 is on row 8, otherwise no winner, and changes nothing
C8_CheckWin ==
    [][last'.op = "check_win" =>
         /\ last'.result = Winner
         /\ GameUnchanged]_vars

\* both players on their goal rows at once
C8_Witness ==
    /\ last.op = "check_win"
    /\ last.result = "player1"
    /\ player_positions["player1"][1] = 0
    /\ player_positions["player2"][1] = 8

\* one admissible step: the flag of the source cell allows it and the
\* destination is a cell of the board
Steps(c) ==
    { <<c[1] + DIRECTIONS[d][1], c[2] + DIRECTIONS[d][2]>> :
         d \in {e \in Dirs : grid[c[1]][c[2]].directions[e]} } \cap Cells

RECURSIVE Distance(_, _, _, _)

\* the least number of admissible steps from a cell of `frontier` (k steps
\* from the start) to the goal row, breadth first
Distance(goal, frontier, seen, k) ==
    IF \E c \in frontier : c[1] = goal THEN Num(k)
    ELSE IF frontier = {} THEN PosInf
    ELSE LET nxt == UNION {Steps(c) : c \in frontier} \ seen
         IN  Distance(goal, nxt, seen \cup nxt, k + 1)

\* C9: a_star returns the least number of admissible steps from the start
\* to the goal row, occupied cells included, and the unreachable sentinel
\* iff no cell of the goal row can be reached; with no walls that is r for
\* row 0 and 8 - r for row 8
C9_ShortestPath ==
    ai.op = "a_star" =>
        /\ ai.exc = "-"
        /\ ai.val = Distance(ai.goal, {ai.start}, {ai.start}, 0)
        /\ walls = <<>> =>
              ai.val = Num(IF ai.goal = 0 THEN ai.start[1]
                           ELSE 8 - ai.start[1])

\* player2's start cell is walled in: no path from it to row 8
C9_Witness ==
    /\ ai.op = "a_star"
    /\ ai.start = <<0, 4>>
    /\ ai.goal = 8
    /\ ai.val = PosInf
    /\ Len(walls) = 3

\* a detour: the path is longer than the rows to cross
C9_WitnessDetour ==
    /\ ai.op = "a_star"
    /\ ai.val.k = "num"
    /\ ai.val.n > Abs(ai.goal - ai.start[1])

RECURSIVE minimax_noprune(_, _, _, _, _, _)

RECURSIVE max_loop_all(_, _, _, _, _, _, _, _)

RECURSIVE min_loop_all(_, _, _, _, _, _, _)

\* max_loop without `if beta <= alpha: break`
max_loop_all(g, state, depth, alpha, beta, i, max_eval, best_move) ==
    IF i > Len(MOVES)
    THEN Returned(g, max_eval, best_move)
    ELSE LET sent == send_move(g, MOVES[i])
         IN  IF "game_state" \notin DOMAIN sent.json
             THEN Raised(sent.game, "KeyError")
             ELSE LET r == minimax_noprune(
                              sent.game,
                              WithGameState(state, sent.json.game_state),
                              depth - 1, alpha, beta, FALSE)
                      better == FLt(max_eval, r.val)
                  IN  IF r.exc # "-" THEN r
                      ELSE max_loop_all(
                              r.game, state, depth, PyMax(alpha, r.val),
                              beta, i + 1,
                              IF better THEN r.val ELSE max_eval,
                              IF better THEN MOVES[i] ELSE best_move)

\* min_loop without `if beta <= alpha: break`
min_loop_all(g, state, depth, alpha, beta, i, min_eval) ==
    IF i > Len(MOVES)
    THEN Returned(g, min_eval, "None")
    ELSE LET sent == send_move(g, MOVES[i])
         IN  IF "game_state" \notin DOMAIN sent.json
             THEN Raised(sent.game, "KeyError")
             ELSE LET r == minimax_noprune(
                              sent.game,
                              WithGameState(state, sent.json.game_state),
                              depth - 1, alpha, beta, TRUE)
                  IN  IF r.exc # "-" THEN r
                      ELSE min_loop_all(
                              r.game, state, depth, alpha,
                              PyMin(beta, r.val), i + 1,
                              PyMin(min_eval, r.val))

\* minimax with the two cut-offs removed
minimax_noprune(g, state, depth, alpha, beta, maximizing) ==
    IF depth = 0
    THEN Leaf(g, state)
    ELSE IF "winner" \notin DOMAIN state
    THEN Raised(g, "KeyError")
    ELSE IF Truthy(state["winner"])
    THEN Leaf(g, state)
    ELSE IF maximizing
    THEN max_loop_all(g, state, depth, alpha, beta, 1, NegInf, "None")
    ELSE min_loop_all(g, state, depth, alpha, beta, 1, PosInf)

Searches == {"minimax", "mcts", "astar_move"}

EngineOps == {"move_player", "place_wall", "switch_turn"}

HolderOps ==
    {"state.walls.append", "state.player_positions.set",
     "state.board.directions.set"}

\* C12: the dict game_state() returned reads the same after a later
\* move_player, place_wall or switch_turn as before it, and an assignment
\* made through the dict leaves the game as it was
C12_ValueCopy ==
    [][/\ (snap.taken /\ last'.op \in EngineOps) => View' = View
       /\ last'.op \in HolderOps => GameUnchanged]_vars

\* the flag of cell (x, y) towards d leaves the grid
Outward(x, y, d) ==
    \/ d = "U" /\ x = 0
    \/ d = "D" /\ x = 8
    \/ d = "L" /\ y = 0
    \/ d = "R" /\ y = 8

\* C13: when /restart has answered the game is the initial one: player1 on
\* (8,4), player2 on (0,4), no other cell occupied, no walls, player1 to
\* move, and every flag true but those that leave the grid
C13_RestartInitial ==
    last.op = "restart" =>
        /\ player_positions["player1"] = <<8, 4>>
        /\ player_positions["player2"] = <<0, 4>>
        /\ grid[8][4].occupant = "player1"
        /\ grid[0][4].occupant = "player2"
        /\ Occupied = {<<8, 4>>, <<0, 4>>}
        /\ walls = <<>>
        /\ turn = "player1"
        /\ \A c \in Cells : \A d \in Dirs :
              grid[c[1]][c[2]].directions[d] = ~Outward(c[1], c[2], d)

\* a restart of a game that had a wall, a moved piece and player2 to move:
\* the dict kept from that game still refers to its objects
C13_Witness ==
    /\ last.op = "restart"
    /\ snap.taken
    /\ ~snap.live
    /\ snap.old.walls # <<>>
    /\ snap.old.turn = "player2"
    /\ snap.old.player_positions["player1"] # <<8, 4>>
    /\ ~snap.old.grid[7][4].directions["D"]

\* the score of one trial of move m as the claims word it: +1 when the move
\* is made and its outcome has player1 as winner, -1 when it has player2
OutcomeScore(m) ==
    LET r == move_player(Game, m)
        w == IF r.result = "True" THEN check_win(r.game) ELSE "None"
    IN  IF w = "player1" THEN 1 ELSE IF w = "player2" THEN -1 ELSE 0

\* C14: mcts returns, its score of each move is the sum over the trials of
\* the score of that move's outcome, and the move it returns has the highest
\* sum, the first of U, D, L, R among equal sums
C14_MctsScores ==
    [][ai'.op = "mcts" =>
         /\ ai'.exc = "-"
         /\ \A m \in Dirs :
               ai'.scores[m] = ai'.simulations * OutcomeScore(m)
         /\ ai'.mv = BestMove([m \in Dirs |->
                                  ai'.simulations * OutcomeScore(m)])]_vars

\* C15: where a move other than U wins at once for player1 and U does not,
\* mcts returns a move other than U
C15_NotDegenerate ==
    [][(/\ ai'.op = "mcts"
        /\ ai'.simulations >= 1
        /\ OutcomeScore("U") < 1
        /\ \E m \in Dirs : OutcomeScore(m) = 1) =>
         /\ ai'.exc = "-"
         /\ ai'.mv # "U"]_vars

\* the evaluation of the game as 4.4 words it, by breadth-first distances
Evaluation ==
    LET p1 == player_positions["player1"]
        p2 == player_positions["player2"]
    IN  FSub(Distance(8, {p2}, {p2}, 0), Distance(0, {p1}, {p1}, 0))

\* C16: every call of minimax returns; with depth 0 or a winner it returns
\* the heuristic value and no move; every call of mcts returns, after
\* exactly 4 x simulations trials
C16_Terminates ==
    [][/\ ai'.op = "minimax" =>
             /\ ai'.exc = "-"
             /\ (ai'.depth = 0 \/ Winner # "None") =>
                   (ai'.val = Evaluation /\ ai'.mv = "None")
       /\ ai'.op = "mcts" =>
             /\ ai'.exc = "-"
             /\ ai'.trials = 4 * ai'.simulations]_vars

\* C19: minimax called with depth >= 1 on a state without winner returns one
\* of U, D, L, R as its move, and so does astar_move, also where a goal row
\* cannot be reached
C19_ReturnsMove ==
    [][/\ (ai'.op = "minimax" /\ ai'.depth >= 1 /\ Winner = "None") =>
             (ai'.exc = "-" /\ ai'.mv \in Dirs)
       /\ ai'.op = "astar_move" =>
             (ai'.exc = "-" /\ ai'.mv \in Dirs)]_vars

\* C17: a successful move_player empties the source cell, puts the player
\* named by turn on the target cell and records the target as that player's
\* position; the other player's position, every other cell's occupant, every
\* flag, the walls and the turn stay as they were
C17_MoveFrame ==
    [][(last'.op = "move_player" /\ last'.result = "True") =>
         LET src == MoverAt
             tgt == Target(last'.direction)
         IN  /\ player_positions'[turn] = tgt
             /\ player_positions'[Other(turn)] = player_positions[Other(turn)]
             /\ \A c \in Cells :
                   grid'[c[1]][c[2]].occupant =
                      IF c = src THEN "empty"
                      ELSE IF c = tgt THEN turn
                      ELSE grid[c[1]][c[2]].occupant
             /\ FlagsUnchanged
             /\ walls' = walls
             /\ turn' = turn]_vars

\* player2 has moved, with a wall on the board
C17_Witness ==
    /\ last.op = "move_player"
    /\ last.result = "True"
    /\ turn = "player2"
    /\ walls # <<>>
    /\ player_positions["player2"] # <<0, 4>>

\* C18: in a state with a winner move_player rejects and accepts by the
\* rules of C2 and place_wall answers as it does in a game without winner,
\* an accepted call changing the game as ever
C18_WinNotBlocking ==
    [][Winner # "None" =>
         /\ last'.op = "move_player" =>
               LET d == last'.direction
                   rejected ==
                       OutOfBounds(d) \/ Disabled(d) \/ TargetOccupied(d)
               IN  /\ rejected => (last'.result = "False" /\ GameUnchanged)
                   /\ ~rejected =>
                         /\ last'.result = "True"
                         /\ player_positions'[turn] = Target(d)
         /\ last'.op = "place_wall" =>
               /\ last'.result =
                     place_wall(NewGame, last'.x, last'.y,
                                last'.orientation).result
               /\ last'.result = "True" =>
                     walls' = Append(walls, <<last'.x, last'.y,
                                              last'.orientation>>)]_vars

\* player1 has just stepped down from its goal row: check_win reported
\* player1 before the move and reports no winner now
C18_Witness ==
    /\ last.op = "move_player"
    /\ last.direction = "D"
    /\ last.result = "True"
    /\ turn = "player1"
    /\ player_positions["player1"][1] = 1
    /\ Winner = "None"

\* C20: every wall record has orientation H or V; a wall command with any
\* other orientation, a missing one included, reports failure, appends no
\* record, changes no flag and leaves the turn
C20_Orientation ==
    [][/\ \A i \in 1 .. Len(walls') : walls'[i][3] \in {"H", "V"}
       /\ (last'.op = "wall" /\ last'.orientation \notin {"H", "V"}) =>
             /\ last'.result = "False"
             /\ walls' = walls
             /\ FlagsUnchanged
             /\ turn' = turn]_vars

\* C21: a wall command whose record is already in walls succeeds again,
\* changes no flag, appends the record once more and hands the turn over;
\* the answer to a wall command does not depend on the walls placed before
C21_RepeatedWall ==
    [][last'.op = "wall" =>
         LET w == <<last'.x, last'.y, last'.orientation>>
         IN  /\ (\E i \in 1 .. Len(walls) : walls[i] = w) =>
                   /\ last'.result = "True"
                   /\ FlagsUnchanged
                   /\ walls' = Append(walls, w)
                   /\ turn' = Other(turn)
             /\ last'.result = place_wall(NewGame, w[1], w[2], w[3]).result
        ]_vars

\* the same wall three times running, each accepted
C21_Witness ==
    /\ last.op = "wall"
    /\ last.result = "True"
    /\ Len(walls) = 3
    /\ walls[1] = walls[2]
    /\ walls[2] = walls[3]
    /\ turn = "player2"

\* no admissible path leads from player p's cell to p's goal row
NoPath(p) ==
    LET at == player_positions[p]
    IN  Distance(IF p = "player1" THEN 0 ELSE 8, {at}, {at}, 0) = PosInf

\* C22: place_wall accepts every H or V wall with its anchor in [0,7] x
\* [0,7], appending its record, whether or not the wall leaves each player a
\* path to the goal row: also the wall that closes the last path (a step
\* with ai'.op = "none" is a call of the engine, not a search)
C22_NoPathCheck ==
    [][(/\ ai'.op = "none"
        /\ last'.op = "place_wall"
        /\ last'.orientation \in {"H", "V"}
        /\ last'.x \in Anchors
        /\ last'.y \in Anchors) =>
         /\ last'.result = "True"
         /\ walls' = Append(walls, <<last'.x, last'.y, last'.orientation>>)
         /\ \A f \in NamedFlags(last'.x, last'.y, last'.orientation) :
               ~grid'[f[1]][f[2]].directions[f[3]]]_vars

\* three accepted walls have closed player2 in, and a_star from player2's
\* cell to row 8 gives the unreachable sentinel
C22_Witness ==
    /\ ai.op = "a_star"
    /\ ai.start = player_positions["player2"]
    /\ ai.goal = 8
    /\ ai.val = PosInf
    /\ NoPath("player2")
    /\ ~NoPath("player1")
    /\ last.op = "place_wall"
    /\ last.result = "True"
    /\ \A i \in 1 .. Len(walls) :
          /\ walls[i][3] \in {"H", "V"}
          /\ walls[i][1] \in Anchors
          /\ walls[i][2] \in Anchors
====
